---- MODULE Spec2Model ----
(***************************************************************************)
(* NeuroRuler: the MRIImage / MRIImageList classes of                      *)
(* src/utils/mri_image.py.                                                 *)
(*                                                                         *)
(* Two specifications share the variables:                                 *)
(*   SpecList   the operations of one MRIImageList (the entries are        *)
(*              references to MRIImage objects, named by their identity);  *)
(*   SpecImage  the operations of one MRIImage.                            *)
(* Angles held by the Euler3DTransform are radians; they are kept in       *)
(* micro-radians (fixed point) so that degrees and radians are distinct    *)
(* numbers, as they are in the program.                                    *)
(***************************************************************************)
EXTENDS Integers, Sequences, FiniteSets, TLC

\* ------------------------------------------------------------------ bounds
NumImg == 2        \* identities of MRIImage objects that can be listed
MaxLen == 3        \* longest list explored
NumFiles == 2      \* image files that can be opened
MaxAngle == 181    \* largest magnitude of an angle argument, in degrees
MaxSlice == 3      \* largest slice argument
MaxContours == 11  \* most contours traced in one slice
MaxPoints == 3     \* most points of a contour

\* ------------------------------------------------ constants of the program
ROTATION_MIN == 0
ROTATION_MAX == 180
constants_ROTATION_MIN == -90
constants_ROTATION_MAX == 90
MAIN_WINDOW_INDEX == 0
NUM_CONTOURS_IN_INVALID_SLICE == 10

VARIABLES
  images,      \* MRIImageList._images : sequence of object identities
  backing,     \* the object _images is: the list's own list, a list the
               \* caller also holds ("shared"), or a tuple
  index,       \* MRIImageList._index
  list_op,     \* name of the last list operation called
  list_err,    \* how that call ended: "ok" or the exception raised
  list_ret,    \* what that call returned (0 stands for None)
  list_arg,    \* the entries that call was given to add
  run_op,      \* history: the operation repeated in the current run
  run_start,   \* history: the cursor before the first call of the run
  run_count,   \* history: the number of calls in the run
  path,        \* MRIImage._path : the file read
  base_img,    \* MRIImage._base_img : the volume read from that file
  theta_x,     \* MRIImage._theta_x, degrees
  theta_y,     \* MRIImage._theta_y, degrees
  theta_z,     \* MRIImage._theta_z, degrees
  slice_z,     \* MRIImage._slice_z
  rotation,    \* rotation of MRIImage._euler_3d_transform, micro-radians
  center,      \* center of MRIImage._euler_3d_transform, half voxels
  img_op,      \* name of the last MRIImage operation called
  img_err,     \* how that call ended: "ok" or the exception raised
  img_ret,     \* the slice that call returned (NoSlice when it returned none)
  smooth,      \* settings.SMOOTH_BEFORE_RENDERING
  found,       \* contours traced in the processed slice: parent of each
  selected,    \* position in found of the contour extracted, -1 for none
  contour,     \* points of the contour extracted or measured
  proc_op,     \* name of the last image-processing call
  proc_err,    \* how that call ended: "ok" or the failure
  proc_ret,    \* the length that call returned, in 1/1000 pixel (-1: none)
  seen,        \* history: settings and slice of a remembered resample()
  gui,         \* the main window: its widgets and the files of IMG_DIR
  gui_op,      \* name of the last handler of the main window that ran
  gui_err,     \* how it ended: "ok" or the exception that left the handler
  slice2d,     \* a 2D slice: its size (width, height) and its pixels by (x, y)
  np_array,    \* the array form of the slice: its shape and its entries
  mask,        \* the binary contour mask of the slice: shape and entries
  grid_op,     \* name of the last call on the slice
  heap,        \* the MRIImage objects: angles, slice index, rotation of each
  last_set,    \* history: the values last passed to the setters of each object
  heap_op      \* the last setter called through the list: name and object

list_vars == <<images, backing, index, list_op, list_err, list_ret, list_arg,
               run_op, run_start, run_count>>
img_vars == <<path, base_img, theta_x, theta_y, theta_z, slice_z,
              rotation, center, img_op, img_err, img_ret, smooth>>
proc_vars == <<found, selected, contour, proc_op, proc_err, proc_ret>>
gui_vars == <<gui, gui_op, gui_err>>
grid_vars == <<slice2d, np_array, mask, grid_op>>
heap_vars == <<heap, last_set, heap_op>>
vars == <<images, backing, index, list_op, list_err, list_ret, list_arg,
          run_op, run_start, run_count,
          path, base_img, theta_x, theta_y, theta_z, slice_z,
          rotation, center, img_op, img_err, img_ret, smooth,
          found, selected, contour, proc_op, proc_err, proc_ret, seen,
          gui, gui_op, gui_err, slice2d, np_array, mask, grid_op,
          heap, last_set, heap_op>>

\* what the operations of the list, of the image and of the image
\* processing leave alone
not_list_vars == <<img_vars, proc_vars, seen, gui_vars, grid_vars, heap_vars>>
not_img_vars == <<list_vars, proc_vars, seen, gui_vars, grid_vars, heap_vars>>
not_proc_vars == <<list_vars, img_vars, seen, gui_vars, grid_vars, heap_vars>>
not_gui_vars == <<list_vars, img_vars, proc_vars, seen, grid_vars, heap_vars>>
not_grid_vars == <<list_vars, img_vars, proc_vars, seen, gui_vars, heap_vars>>
not_heap_vars == <<img_vars, proc_vars, seen, gui_vars, grid_vars>>

\* ------------------------------------------------------------ input sets
Objects == 1..NumImg
IdxArgs == (0 - (MaxLen + 1))..(MaxLen + 1)
Lists == UNION {[1..n -> Objects] : n \in 0..MaxLen}
ArgKinds == {"None", "list", "MRIImageList", "subclass", "tuple"}
CursorArgs == {0 - 1, 0, 1, MaxLen}
Paths == 1..NumFiles
AngleArgs == {constants_ROTATION_MIN, ROTATION_MIN, ROTATION_MAX, MaxAngle}
SliceArgs == (0 - 1)..MaxSlice
HardArgs == {<<0, 0, 0>>, <<45, 0, 45>>}
InitAngles == {<<0, 0, 0>>, <<MaxAngle, 0, MaxAngle>>}
Points == {<<0, 0>>, <<3, 0>>, <<1, 4>>}
ContourCounts == {0, 1, 2, NUM_CONTOURS_IN_INVALID_SLICE - 1,
                  NUM_CONTOURS_IN_INVALID_SLICE, MaxContours}
Contours == UNION {[1..n -> Points] : n \in 0..MaxPoints}
Selections == {<<>>, <<1>>, <<1, 2>>, <<2, 1>>}
EntryLists == {<<1>>, <<1, 2>>, <<2, 1, 1>>}
EntryAngles == {ROTATION_MIN, ROTATION_MAX}
Shadings == {<<0, 0>>, <<1, 0>>, <<0, 1>>, <<1, 1>>, <<1, 2>>, <<2, 1>>,
             <<2, 0>>, <<0, 2>>, <<1, 0 - 1>>, <<0 - 1, 1>>, <<0 - 1, 0>>}
SliderMoves == {ROTATION_MIN, constants_ROTATION_MAX}
SliceCounts == {1, NUM_CONTOURS_IN_INVALID_SLICE}
SliceMoves == {1, 2}
GuiLists == {<<1>>, <<1, 2>>}

\* ------------------------------------------------- Python list semantics
\* s[i] for a Python index i on a list of length n: negative indices count
\* from the end.  The result is a position 0..n-1, or is out of range.
py_index(i, n) == IF i < 0 THEN i + n ELSE i
in_range(i, n) == py_index(i, n) >= 0 /\ py_index(i, n) < n

\* list.insert(i, x): the position is clamped into 0..n
insert_pos(i, n) ==
  IF i < 0 THEN (IF i + n < 0 THEN 0 ELSE i + n)
  ELSE (IF i > n THEN n ELSE i)

\* the list without the entry at position k (0-based)
list_del(s, k) == SubSeq(s, 1, k) \o SubSeq(s, k + 2, Len(s))

\* the list with x put before position k (0-based)
list_insert(s, k, x) == SubSeq(s, 1, k) \o <<x>> \o SubSeq(s, k + 1, Len(s))

\* the list with position k (0-based) replaced by x
list_set(s, k, x) == [s EXCEPT ![k + 1] = x]

\* ------------------------------------------------------------ MRIImageList
\* the guards at the head of __delitem__: which exception, if any
delitem_guard(n) ==
  IF n = 0 THEN "RemoveFromEmptyList"
  ELSE IF n = 1 THEN "RemoveFromListOfLengthOne"
  ELSE "ok"

\* pop without the guard on a list of length one
pop_guard_no_single(n) ==
  IF n = 0 THEN "RemoveFromEmptyList" ELSE "ok"

\* the guards at the head of pop
pop_guard(n) ==
  IF n = 0 THEN "RemoveFromEmptyList"
  ELSE IF n = 1 THEN "RemoveFromListOfLengthOne"
  ELSE "ok"

\* next() that steps past the last index before it wraps
next_index_late_wrap(i, n) ==
  LET j == (i + 1) % (n + 1)
  IN IF n = 1 THEN 0 ELSE j

\* the cursor that next() stores, for a list of length n >= 1
next_index(i, n) ==
  LET j == (i + 1) % n
  IN IF n = 1 THEN 0 ELSE j

\* the cursor that previous() stores, for a list of length n >= 1
previous_index(i, n) ==
  LET j == (i - 1) % n
  IN IF n = 1 THEN 0 ELSE j

\* history of runs of the same navigation call
no_run == run_op' = "none" /\ run_start' = 0 /\ run_count' = 0
run_of(op) ==
  /\ run_op' = op
  /\ IF run_op = op /\ run_count < Len(images)
       THEN run_start' = run_start /\ run_count' = run_count + 1
       ELSE run_start' = index /\ run_count' = 1

InitList ==
  /\ images = <<>>
  /\ backing = "own"
  /\ index = 0
  /\ list_op = "init"
  /\ list_err = "ok"
  /\ list_ret = 0
  /\ list_arg = <<>>
  /\ run_op = "none"
  /\ run_start = 0
  /\ run_count = 0

\* a call that fails on the tuple that _images is: nothing is changed
tuple_rejects(op, err, arg) ==
  /\ list_op' = op
  /\ list_err' = err
  /\ list_ret' = 0
  /\ list_arg' = arg
  /\ no_run
  /\ UNCHANGED <<images, backing, index>>
  /\ UNCHANGED not_list_vars

\* MRIImageList(init_list): a new list object; _index is the class default.
\* kind is the type of the argument: None, a list or an MRIImageList are
\* copied into a new list; an object of any other type ("subclass": an
\* instance of a subclass of list, "tuple") is kept as it is
MRIImageList_call(init_list, kind) ==
  /\ kind = "None" => init_list = <<>>
  /\ images' = init_list
  /\ backing' = (IF kind \in {"None", "list", "MRIImageList"} THEN "own"
                 ELSE IF kind = "subclass" THEN "shared"
                 ELSE "tuple")
  /\ index' = 0
  /\ list_op' = "construct"
  /\ list_err' = "ok"
  /\ list_ret' = 0
  /\ list_arg' = <<>>
  /\ no_run

\* MRIImageList(init_list), called on its own
MRIImageList_init(init_list, kind) ==
  /\ MRIImageList_call(init_list, kind)
  /\ UNCHANGED not_list_vars

\* next() that returns quietly on an empty list
next_quiet_on_empty ==
  /\ list_op' = "next"
  /\ list_ret' = 0
  /\ IF Len(images) = 0
       THEN /\ list_err' = "ok"
            /\ index' = index
            /\ no_run
       ELSE /\ list_err' = "ok"
            /\ index' = (IF Len(images) = 1 THEN 0
                         ELSE (index + 1) % Len(images))
            /\ run_of("next")
  /\ list_arg' = <<>>
  /\ UNCHANGED <<images, backing>>
  /\ UNCHANGED not_list_vars

\* next(): the modulo raises ZeroDivisionError on an empty list, before the
\* assignment to _index
next_call ==
  /\ list_op' = "next"
  /\ list_ret' = 0
  /\ IF Len(images) = 0
       THEN /\ list_err' = "ZeroDivisionError"
            /\ index' = index
            /\ no_run
       ELSE /\ list_err' = "ok"
            /\ index' = next_index(index, Len(images))
            /\ run_of("next")
  /\ list_arg' = <<>>
  /\ UNCHANGED <<images, backing>>

\* next(), called on its own
next ==
  /\ next_call
  /\ UNCHANGED not_list_vars

previous_call ==
  /\ list_op' = "previous"
  /\ list_ret' = 0
  /\ IF Len(images) = 0
       THEN /\ list_err' = "ZeroDivisionError"
            /\ index' = index
            /\ no_run
       ELSE /\ list_err' = "ok"
            /\ index' = previous_index(index, Len(images))
            /\ run_of("previous")
  /\ list_arg' = <<>>
  /\ UNCHANGED <<images, backing>>

\* previous(), called on its own
previous ==
  /\ previous_call
  /\ UNCHANGED not_list_vars

\* del image_list[i]: the guards, then del on _images (a tuple supports no
\* item deletion)
delitem(i) ==
  /\ list_op' = "delitem"
  /\ list_ret' = 0
  /\ IF delitem_guard(Len(images)) # "ok"
       THEN list_err' = delitem_guard(Len(images)) /\ images' = images
       ELSE IF backing = "tuple"
         THEN list_err' = "TypeError" /\ images' = images
         ELSE IF ~in_range(i, Len(images))
           THEN list_err' = "IndexError" /\ images' = images
           ELSE /\ list_err' = "ok"
                /\ images' = list_del(images, py_index(i, Len(images)))
  /\ index' = index
  /\ list_arg' = <<>>
  /\ no_run
  /\ UNCHANGED backing
  /\ UNCHANGED not_list_vars

\* pop(i) that takes the last entry whatever i is
pop_takes_last(i) ==
  /\ list_op' = "pop"
  /\ IF pop_guard(Len(images)) # "ok"
       THEN /\ list_err' = pop_guard(Len(images))
            /\ images' = images
            /\ list_ret' = 0
       ELSE IF backing = "tuple"
         THEN list_err' = "AttributeError" /\ images' = images /\ list_ret' = 0
         ELSE IF ~in_range(i, Len(images))
           THEN list_err' = "IndexError" /\ images' = images /\ list_ret' = 0
           ELSE /\ list_err' = "ok"
                /\ images' = list_del(images, Len(images) - 1)
                /\ list_ret' = images[Len(images)]
  /\ index' = index
  /\ list_arg' = <<>>
  /\ no_run
  /\ UNCHANGED backing
  /\ UNCHANGED not_list_vars

\* pop(i), i defaults to -1: the guards, then pop on _images (a tuple has no
\* pop)
pop(i) ==
  /\ list_op' = "pop"
  /\ IF pop_guard(Len(images)) # "ok"
       THEN /\ list_err' = pop_guard(Len(images))
            /\ images' = images
            /\ list_ret' = 0
       ELSE IF backing = "tuple"
         THEN list_err' = "AttributeError" /\ images' = images /\ list_ret' = 0
         ELSE IF ~in_range(i, Len(images))
           THEN list_err' = "IndexError" /\ images' = images /\ list_ret' = 0
           ELSE /\ list_err' = "ok"
                /\ images' = list_del(images, py_index(i, Len(images)))
                /\ list_ret' = images[py_index(i, Len(images)) + 1]
  /\ index' = index
  /\ list_arg' = <<>>
  /\ no_run
  /\ UNCHANGED backing
  /\ UNCHANGED not_list_vars

\* image_list[i] = image (a tuple supports no item assignment)
setitem(i, image) ==
  /\ list_op' = "setitem"
  /\ list_ret' = 0
  /\ IF backing = "tuple"
       THEN list_err' = "TypeError" /\ images' = images
       ELSE IF ~in_range(i, Len(images))
         THEN list_err' = "IndexError" /\ images' = images
         ELSE /\ list_err' = "ok"
              /\ images' = list_set(images, py_index(i, Len(images)), image)
  /\ index' = index
  /\ list_arg' = <<>>
  /\ no_run
  /\ UNCHANGED backing
  /\ UNCHANGED not_list_vars

\* insert that keeps the cursor on the entry it pointed at
insert_repoint(i, image) ==
  IF backing = "tuple"
    THEN tuple_rejects("insert", "AttributeError", <<image>>)
    ELSE /\ Len(images) < MaxLen
         /\ list_op' = "insert"
         /\ list_err' = "ok"
         /\ list_ret' = 0
         /\ images' = list_insert(images, insert_pos(i, Len(images)), image)
         /\ index' = (IF insert_pos(i, Len(images)) <= index THEN index + 1
                      ELSE index)
         /\ list_arg' = <<image>>
         /\ no_run
         /\ UNCHANGED backing
         /\ UNCHANGED not_list_vars

\* insert(i, image): insert on _images (a tuple has no insert)
insert(i, image) ==
  IF backing = "tuple"
    THEN tuple_rejects("insert", "AttributeError", <<image>>)
    ELSE /\ Len(images) < MaxLen
         /\ list_op' = "insert"
         /\ list_err' = "ok"
         /\ list_ret' = 0
         /\ images' = list_insert(images, insert_pos(i, Len(images)), image)
         /\ index' = index
         /\ list_arg' = <<image>>
         /\ no_run
         /\ UNCHANGED backing
         /\ UNCHANGED not_list_vars

\* append(image): append on _images (a tuple has no append)
append(image) ==
  IF backing = "tuple"
    THEN tuple_rejects("append", "AttributeError", <<image>>)
    ELSE /\ Len(images) < MaxLen
         /\ list_op' = "append"
         /\ list_err' = "ok"
         /\ list_ret' = 0
         /\ images' = images \o <<image>>
         /\ index' = index
         /\ list_arg' = <<image>>
         /\ no_run
         /\ UNCHANGED backing
         /\ UNCHANGED not_list_vars

\* extend(other), also image_list += other: other is a list or an
\* MRIImageList (this one included); extend on _images (a tuple has none)
extend(other) ==
  IF backing = "tuple"
    THEN tuple_rejects("extend", "AttributeError", other)
    ELSE /\ Len(images) + Len(other) <= MaxLen
         /\ list_op' = "extend"
         /\ list_err' = "ok"
         /\ list_ret' = 0
         /\ images' = images \o other
         /\ index' = index
         /\ list_arg' = other
         /\ no_run
         /\ UNCHANGED backing
         /\ UNCHANGED not_list_vars

\* clear(): clear on _images (a tuple has none) and then _index = 0
clear ==
  IF backing = "tuple"
    THEN tuple_rejects("clear", "AttributeError", <<>>)
    ELSE /\ list_op' = "clear"
         /\ list_err' = "ok"
         /\ list_ret' = 0
         /\ images' = <<>>
         /\ index' = 0
         /\ list_arg' = <<>>
         /\ no_run
         /\ UNCHANGED backing
         /\ UNCHANGED not_list_vars

\* image_list.index = i: stored as given
set_index(i) ==
  /\ list_op' = "set_index"
  /\ list_err' = "ok"
  /\ list_ret' = 0
  /\ index' = i
  /\ list_arg' = <<>>
  /\ no_run
  /\ UNCHANGED <<images, backing>>
  /\ UNCHANGED not_list_vars

\* image_list.images = l: the object given becomes _images, so the caller
\* holds it too; kind is its type, as for the constructor
set_images(l, kind) ==
  /\ list_op' = "set_images"
  /\ list_err' = "ok"
  /\ list_ret' = 0
  /\ images' = l
  /\ backing' = (IF kind = "tuple" THEN "tuple" ELSE "shared")
  /\ index' = index
  /\ list_arg' = <<>>
  /\ no_run
  /\ UNCHANGED not_list_vars

\* the entries in the opposite order
swapped(s) == [k \in 1..Len(s) |-> s[Len(s) + 1 - k]]

\* reverse(), inherited from MutableSequence: swaps image_list[k] and
\* image_list[n - k - 1] for k < n // 2, so the first swap fails on a tuple
reverse ==
  /\ list_op' = "reverse"
  /\ list_ret' = 0
  /\ IF backing = "tuple" /\ Len(images) >= 2
       THEN list_err' = "TypeError" /\ images' = images
       ELSE list_err' = "ok" /\ images' = swapped(images)
  /\ index' = index
  /\ list_arg' = <<>>
  /\ no_run
  /\ UNCHANGED backing
  /\ UNCHANGED not_list_vars

\* the caller appends to the list object it shares with the MRIImageList,
\* with no call on the MRIImageList
caller_append(image) ==
  /\ backing = "shared"
  /\ Len(images) < MaxLen
  /\ list_op' = "caller_append"
  /\ list_err' = "ok"
  /\ list_ret' = 0
  /\ images' = images \o <<image>>
  /\ index' = index
  /\ list_arg' = <<image>>
  /\ no_run
  /\ UNCHANGED backing
  /\ UNCHANGED not_list_vars

NextList ==
  \/ \E l \in Lists, kind \in ArgKinds : MRIImageList_init(l, kind)
  \/ next
  \/ previous
  \/ \E i \in IdxArgs : delitem(i)
  \/ \E i \in IdxArgs : pop(i)
  \/ \E i \in IdxArgs, o \in Objects : setitem(i, o)
  \/ \E i \in IdxArgs, o \in Objects : insert(i, o)
  \/ \E o \in Objects : append(o)
  \/ \E l \in Lists : extend(l)
  \/ clear
  \/ \E i \in CursorArgs : set_index(i)
  \/ \E l \in Lists, kind \in {"list", "tuple"} : set_images(l, kind)
  \/ reverse
  \/ \E o \in Objects : caller_append(o)

\* ---------------------------------------------------------------- MRIImage
\* degrees * pi / 180, in micro-radians (pi to six decimals), truncated
\* towards zero
degrees_to_radians(degrees) ==
  IF degrees < 0 THEN 0 - (((0 - degrees) * 3141593) \div 180)
  ELSE (degrees * 3141593) \div 180

\* a number handed to SetRotation as it is: radians, in micro-radians
as_radians(r) == r * 1000000

\* Euler3DTransform.SetRotation(ax, ay, az): the three angles stored
SetRotation(ax, ay, az) == <<ax, ay, az>>

\* size (nx, ny, nz) of the volume READER.Execute() reads from file p
GetSize(p) == <<p + 2, p + 1, p + 1>>

\* TransformContinuousIndexToPhysicalPoint([(d - 1) / 2.0 for each d]) of a
\* volume with unit spacing at the origin, in half voxels
center_of(p) == <<GetSize(p)[1] - 1, GetSize(p)[2] - 1, GetSize(p)[3] - 1>>

\* sitk.Resample(base_img, transform)[:, :, z]: the resampled volume has the
\* size of base_img; an integer index counts from the end when negative and
\* raises IndexError outside the extent
slice_in_extent(z, p) == in_range(z, GetSize(p)[3])

\* no slice returned
NoSlice ==
  [base |-> 0, center |-> <<0, 0, 0>>, rotation |-> <<0, 0, 0>>,
   plane |-> 0 - 1, smooth |-> FALSE]

\* sitk.Resample(base, transform)[:, :, z], then the smoothing filter when
\* sm: the slice is named by what it is sampled from
rotated_slice(base, c, rot, z, sm) ==
  [base |-> base, center |-> c, rotation |-> rot,
   plane |-> py_index(z, GetSize(base)[3]), smooth |-> sm]

\* MRIImage(path, theta_x, theta_y, theta_z, slice_z)
MRIImage_fields(p, tx, ty, tz, sz) ==
  /\ path = p
  /\ theta_x = tx
  /\ theta_y = ty
  /\ theta_z = tz
  /\ slice_z = sz
  /\ base_img = p
  /\ center = center_of(p)
  /\ rotation = SetRotation(degrees_to_radians(tx), degrees_to_radians(ty),
                            degrees_to_radians(tz))

\* the state after MRIImage(path): all settings default to 0
InitImage ==
  /\ \E p \in Paths : MRIImage_fields(p, 0, 0, 0, 0)
  /\ img_op = "init"
  /\ img_err = "ok"
  /\ img_ret = NoSlice
  /\ smooth \in BOOLEAN

\* a new MRIImage takes the place of the object (deepcopy, Open)
MRIImage_init(p, tx, ty, tz, sz) ==
  /\ path' = p
  /\ theta_x' = tx
  /\ theta_y' = ty
  /\ theta_z' = tz
  /\ slice_z' = sz
  /\ base_img' = p
  /\ center' = center_of(p)
  /\ rotation' = SetRotation(degrees_to_radians(tx), degrees_to_radians(ty),
                             degrees_to_radians(tz))
  /\ img_op' = "construct"
  /\ img_err' = "ok"
  /\ img_ret' = NoSlice
  /\ UNCHANGED smooth
  /\ UNCHANGED not_img_vars

\* path setter
set_path(p) ==
  /\ path' = p
  /\ base_img' = p
  /\ center' = center_of(p)
  /\ rotation' = SetRotation(0, 0, 0)
  /\ theta_x' = 0
  /\ theta_y' = 0
  /\ theta_z' = 0
  /\ slice_z' = 0
  /\ img_op' = "set_path"
  /\ img_err' = "ok"
  /\ img_ret' = NoSlice
  /\ UNCHANGED smooth
  /\ UNCHANGED not_img_vars

\* theta_x setter that builds a new Euler3DTransform, whose center is the
\* origin, instead of updating the one made at construction
set_theta_x_new_transform(t) ==
  /\ theta_x' = t
  /\ rotation' = SetRotation(degrees_to_radians(t),
                             degrees_to_radians(theta_y),
                             degrees_to_radians(theta_z))
  /\ center' = <<0, 0, 0>>
  /\ img_op' = "set_theta_x"
  /\ img_err' = "ok"
  /\ img_ret' = NoSlice
  /\ UNCHANGED smooth
  /\ UNCHANGED <<path, base_img, theta_y, theta_z, slice_z>>
  /\ UNCHANGED not_img_vars

\* theta_x setter
set_theta_x(t) ==
  /\ theta_x' = t
  /\ rotation' = SetRotation(degrees_to_radians(t),
                             degrees_to_radians(theta_y),
                             degrees_to_radians(theta_z))
  /\ img_op' = "set_theta_x"
  /\ img_err' = "ok"
  /\ img_ret' = NoSlice
  /\ UNCHANGED smooth
  /\ UNCHANGED <<path, base_img, center, theta_y, theta_z, slice_z>>
  /\ UNCHANGED not_img_vars

\* theta_y setter
set_theta_y(t) ==
  /\ theta_y' = t
  /\ rotation' = SetRotation(degrees_to_radians(theta_x),
                             degrees_to_radians(t),
                             degrees_to_radians(theta_z))
  /\ img_op' = "set_theta_y"
  /\ img_err' = "ok"
  /\ img_ret' = NoSlice
  /\ UNCHANGED smooth
  /\ UNCHANGED <<path, base_img, center, theta_x, theta_z, slice_z>>
  /\ UNCHANGED not_img_vars

\* theta_z setter
set_theta_z(t) ==
  /\ theta_z' = t
  /\ rotation' = SetRotation(degrees_to_radians(theta_x),
                             degrees_to_radians(theta_y),
                             degrees_to_radians(t))
  /\ img_op' = "set_theta_z"
  /\ img_err' = "ok"
  /\ img_ret' = NoSlice
  /\ UNCHANGED smooth
  /\ UNCHANGED <<path, base_img, center, theta_x, theta_y, slice_z>>
  /\ UNCHANGED not_img_vars

\* slice_z setter
set_slice_z(z) ==
  /\ slice_z' = z
  /\ img_op' = "set_slice_z"
  /\ img_err' = "ok"
  /\ img_ret' = NoSlice
  /\ UNCHANGED smooth
  /\ UNCHANGED <<path, base_img, center, theta_x, theta_y, theta_z, rotation>>
  /\ UNCHANGED not_img_vars

\* resample() that sets the rotation again after resampling, the way
\* resample_hardcoded does
resample_sets_rotation ==
  /\ img_op' = "resample"
  /\ IF slice_in_extent(slice_z, base_img)
       THEN /\ img_err' = "ok"
            /\ img_ret' = rotated_slice(base_img, center, rotation, slice_z,
                                        smooth)
       ELSE /\ img_err' = "IndexError"
            /\ img_ret' = NoSlice
  /\ rotation' = SetRotation(theta_x * 1000000, theta_y * 1000000,
                             theta_z * 1000000)
  /\ UNCHANGED smooth
  /\ UNCHANGED <<path, base_img, center, theta_x, theta_y, theta_z, slice_z>>
  /\ UNCHANGED not_img_vars

\* resample(): reads the fields; indexing the resampled volume may raise
resample ==
  /\ img_op' = "resample"
  /\ IF slice_in_extent(slice_z, base_img)
       THEN /\ img_err' = "ok"
            /\ img_ret' = rotated_slice(base_img, center, rotation, slice_z,
                                        smooth)
       ELSE /\ img_err' = "IndexError"
            /\ img_ret' = NoSlice
  /\ UNCHANGED smooth
  /\ UNCHANGED <<path, base_img, center, theta_x, theta_y, theta_z, slice_z,
                 rotation>>
  /\ UNCHANGED not_img_vars

\* the rotation resample_hardcoded sets before resampling
hardcoded_rotation(tx, ty, tz) ==
  SetRotation(as_radians(tx), as_radians(ty), as_radians(tz))

\* the rotation resample_hardcoded sets after resampling
restored_rotation(tx, ty, tz) ==
  SetRotation(as_radians(tx), as_radians(ty), as_radians(tz))

\* resample_hardcoded(theta_x, theta_y, theta_z, slice_z): when the indexing
\* raises, the statement that sets the rotation back is not reached
resample_hardcoded(tx, ty, tz, sz) ==
  /\ img_op' = "resample_hardcoded"
  /\ IF slice_in_extent(sz, base_img)
       THEN /\ img_err' = "ok"
            /\ img_ret' = rotated_slice(base_img, center,
                                        hardcoded_rotation(tx, ty, tz), sz,
                                        smooth)
            /\ rotation' = restored_rotation(theta_x, theta_y, theta_z)
       ELSE /\ img_err' = "IndexError"
            /\ img_ret' = NoSlice
            /\ rotation' = hardcoded_rotation(tx, ty, tz)
  /\ UNCHANGED smooth
  /\ UNCHANGED <<path, base_img, center, theta_x, theta_y, theta_z, slice_z>>
  /\ UNCHANGED not_img_vars

NextImage ==
  \/ \E p \in Paths, t \in InitAngles, sz \in SliceArgs :
        MRIImage_init(p, t[1], t[2], t[3], sz)
  \/ \E p \in Paths : set_path(p)
  \/ \E t \in AngleArgs : set_theta_x(t)
  \/ \E t \in AngleArgs : set_theta_y(t)
  \/ \E t \in AngleArgs : set_theta_z(t)
  \/ \E z \in SliceArgs : set_slice_z(z)
  \/ resample
  \/ \E t \in HardArgs, sz \in SliceArgs :
        resample_hardcoded(t[1], t[2], t[3], sz)


\* --------------------------------------------------------- image processing
\* The contour extraction and the perimeter measurement (imgproc) follow
\* sections 4.3 and 4.4 of the specification.

\* the largest r in lo..hi with r * r <= x
RECURSIVE isqrt_between(_, _, _)
isqrt_between(x, lo, hi) ==
  IF lo = hi THEN lo
  ELSE LET mid == (lo + hi + 1) \div 2
       IN IF mid * mid <= x THEN isqrt_between(x, mid, hi)
          ELSE isqrt_between(x, lo, mid - 1)

isqrt(x) == isqrt_between(x, 0, 46340)

\* Euclidean distance of two points, in 1/1000 pixel
distance(p, q) ==
  isqrt(((p[1] - q[1]) * (p[1] - q[1]) + (p[2] - q[2]) * (p[2] - q[2]))
        * 1000000)

\* length of the open curve through the points of c, in order
RECURSIVE open_length(_)
open_length(c) ==
  IF Len(c) < 2 THEN 0
  ELSE distance(c[1], c[2]) + open_length(Tail(c))

\* arc length that leaves the curve open
closed_length_left_open(c) == open_length(c)

\* arc length of the closed curve: the open curve and the way back from
\* the last point to the first
closed_length(c) == open_length(c) + distance(c[Len(c)], c[1])

\* the contours traced in a slice, as the parent of each (-1 for none):
\* one outer boundary at position r (0-based), every other one a hole in it
hierarchy(n, r) == [i \in 1..n |-> IF i = r + 1 THEN 0 - 1 ELSE r]

\* position (0-based) of the contour that has no parent
no_parent(h) == CHOOSE i \in 0..(Len(h) - 1) : h[i + 1] = 0 - 1

\* a validity policy that takes exactly the threshold as still valid
is_invalid_slice_above_threshold(n) == n > NUM_CONTOURS_IN_INVALID_SLICE

\* the validity policy: too many contours make the slice invalid
is_invalid_slice(n) == n >= NUM_CONTOURS_IN_INVALID_SLICE

NoProc ==
  /\ found = <<>>
  /\ selected = 0 - 1
  /\ contour = <<>>
  /\ proc_op = "init"
  /\ proc_err = "ok"
  /\ proc_ret = 0 - 1

\* extract_contour(slice): n contours are traced, the outer one at position
\* r with the points pts
extract_contour(n, r, pts) ==
  /\ proc_op' = "extract"
  /\ proc_ret' = 0 - 1
  /\ found' = hierarchy(n, r)
  /\ IF is_invalid_slice(n)
       THEN /\ proc_err' = "InvalidSlice"
            /\ selected' = 0 - 1
            /\ contour' = <<>>
       ELSE IF n = 0
         THEN /\ proc_err' = "ok"
              /\ selected' = 0 - 1
              /\ contour' = <<>>
         ELSE /\ proc_err' = "ok"
              /\ selected' = no_parent(hierarchy(n, r))
              /\ contour' = pts
  /\ UNCHANGED not_proc_vars

\* measure_perimeter that closes the curve in place, by appending the first
\* point to the contour it was given
measure_perimeter_closes_in_place ==
  /\ proc_op' = "measure"
  /\ IF Len(contour) < 2
       THEN /\ proc_err' = "EmptyContour"
            /\ proc_ret' = 0 - 1
            /\ contour' = contour
       ELSE /\ proc_err' = "ok"
            /\ proc_ret' = closed_length(contour)
            /\ contour' = Append(contour, contour[1])
  /\ UNCHANGED <<found, selected>>
  /\ UNCHANGED not_proc_vars

\* measure_perimeter that gives a contour of fewer than 2 points the
\* length 0
measure_perimeter_zero_when_short ==
  /\ proc_op' = "measure"
  /\ proc_err' = "ok"
  /\ proc_ret' = IF Len(contour) < 2 THEN 0 ELSE closed_length(contour)
  /\ UNCHANGED <<found, selected, contour>>
  /\ UNCHANGED not_proc_vars

\* measure_perimeter(contour)
measure_perimeter ==
  /\ proc_op' = "measure"
  /\ IF Len(contour) < 2
       THEN proc_err' = "EmptyContour" /\ proc_ret' = 0 - 1
       ELSE proc_err' = "ok" /\ proc_ret' = closed_length(contour)
  /\ UNCHANGED <<found, selected, contour>>
  /\ UNCHANGED not_proc_vars

NextProc ==
  \/ \E n \in ContourCounts, pts \in Contours :
        \E r \in {0, IF n = 0 THEN 0 ELSE n - 1} :
           extract_contour(n, r, pts)
  \/ measure_perimeter

\* --------------------------------------------------------------- pipeline
\* what a run of the pipeline is given: the volume, the three angles, the
\* slice index and the smoothing setting
pipeline_inputs == <<base_img, theta_x, theta_y, theta_z, slice_z, smooth>>

\* the caller keeps the slice of the resample() just made, with what it was
\* made from, to compare a later run with
remember ==
  /\ img_op = "resample"
  /\ img_err = "ok"
  /\ seen' = [taken |-> TRUE, key |-> pipeline_inputs, slice |-> img_ret]
  /\ UNCHANGED <<list_vars, img_vars, proc_vars, gui_vars, grid_vars,
                 heap_vars>>

NextPipeline ==
  \/ \E t \in {ROTATION_MIN, ROTATION_MAX} : set_theta_x(t)
  \/ \E z \in 0..1 : set_slice_z(z)
  \/ resample
  \/ \E t \in HardArgs : resample_hardcoded(t[1], t[2], t[3], 0)
  \/ remember

\* --------------------------------------------------- images of the list
\* The MRIImage objects that the entries of the list refer to. IMAGE_LIST[i]
\* returns a reference, so a setter called on it acts on the object.

MRIImage_object ==
  [theta_x |-> 0, theta_y |-> 0, theta_z |-> 0, slice_z |-> 0,
   rotation |-> SetRotation(degrees_to_radians(0), degrees_to_radians(0),
                            degrees_to_radians(0))]

InitHeap ==
  /\ heap = [o \in Objects |-> MRIImage_object]
  /\ last_set = [o \in Objects |->
                  [theta_x |-> 0, theta_y |-> 0, theta_z |-> 0, slice_z |-> 0]]
  /\ heap_op = <<"init", 0>>

\* MRIImageList.__getitem__(i) for an int i in range
getitem(i) == images[py_index(i, Len(images)) + 1]

\* the object with a field and its rotation written
set_x_of(h, o, t) ==
  [h EXCEPT ![o].theta_x = t,
            ![o].rotation = SetRotation(degrees_to_radians(t),
                                        degrees_to_radians(h[o].theta_y),
                                        degrees_to_radians(h[o].theta_z))]

\* a theta_x setter that keeps the angle in one place for all images
entry_set_theta_x_shared(i, t) ==
  /\ in_range(i, Len(images))
  /\ heap' = [o \in Objects |-> set_x_of(heap, o, t)[o]]
  /\ last_set' = [last_set EXCEPT ![getitem(i)].theta_x = t]
  /\ heap_op' = <<"set_theta_x", getitem(i)>>
  /\ UNCHANGED list_vars
  /\ UNCHANGED not_heap_vars

\* IMAGE_LIST[i].theta_x = t
entry_set_theta_x(i, t) ==
  /\ in_range(i, Len(images))
  /\ heap' = set_x_of(heap, getitem(i), t)
  /\ last_set' = [last_set EXCEPT ![getitem(i)].theta_x = t]
  /\ heap_op' = <<"set_theta_x", getitem(i)>>
  /\ UNCHANGED list_vars
  /\ UNCHANGED not_heap_vars

\* IMAGE_LIST[i].theta_y = t
entry_set_theta_y(i, t) ==
  /\ in_range(i, Len(images))
  /\ LET o == getitem(i)
     IN heap' = [heap EXCEPT
                   ![o].theta_y = t,
                   ![o].rotation = SetRotation(degrees_to_radians(heap[o].theta_x),
                                               degrees_to_radians(t),
                                               degrees_to_radians(heap[o].theta_z))]
  /\ last_set' = [last_set EXCEPT ![getitem(i)].theta_y = t]
  /\ heap_op' = <<"set_theta_y", getitem(i)>>
  /\ UNCHANGED list_vars
  /\ UNCHANGED not_heap_vars

\* IMAGE_LIST[i].theta_z = t
entry_set_theta_z(i, t) ==
  /\ in_range(i, Len(images))
  /\ LET o == getitem(i)
     IN heap' = [heap EXCEPT
                   ![o].theta_z = t,
                   ![o].rotation = SetRotation(degrees_to_radians(heap[o].theta_x),
                                               degrees_to_radians(heap[o].theta_y),
                                               degrees_to_radians(t))]
  /\ last_set' = [last_set EXCEPT ![getitem(i)].theta_z = t]
  /\ heap_op' = <<"set_theta_z", getitem(i)>>
  /\ UNCHANGED list_vars
  /\ UNCHANGED not_heap_vars

\* IMAGE_LIST[i].slice_z = z
entry_set_slice_z(i, z) ==
  /\ in_range(i, Len(images))
  /\ heap' = [heap EXCEPT ![getitem(i)].slice_z = z]
  /\ last_set' = [last_set EXCEPT ![getitem(i)].slice_z = z]
  /\ heap_op' = <<"set_slice_z", getitem(i)>>
  /\ UNCHANGED list_vars
  /\ UNCHANGED not_heap_vars

\* navigation of the list between setter calls on its entries
NextEntries ==
  \/ \E l \in EntryLists : MRIImageList_init(l, "list")
  \/ next
  \/ previous
  \/ \E i \in 0..(Len(images) - 1), t \in EntryAngles : entry_set_theta_x(i, t)
  \/ \E i \in 0..(Len(images) - 1) : entry_set_theta_y(i, ROTATION_MAX)
  \/ \E i \in 0..(Len(images) - 1) : entry_set_theta_z(i, ROTATION_MAX)
  \/ \E i \in 0..(Len(images) - 1) : entry_set_slice_z(i, 1)

\* ------------------------------------------------------------ main window
\* The handlers of MainWindow act on the module's IMAGE_LIST (images, index,
\* heap) and on the widgets and the files of IMG_DIR (gui). main.ui, which
\* says which widgets start enabled, is not among the sources, so a handler
\* can be called in every state in which the application runs. PyQt6 ends
\* the application when an exception leaves a slot.

\* IMAGE_LIST.get_index(), IMAGE_LIST.get_curr_mri_image() and
\* mri_image.get_rotated_slice(): MRIImageList and MRIImage have no
\* attribute of these names, so the call raises
get_index == "AttributeError"
get_curr_mri_image == "AttributeError"
get_rotated_slice == "AttributeError"

\* how two calls in a row end: the second runs when the first returns
then(first, second) == IF first # "ok" THEN first ELSE second

\* save_all_slices_to_img_dir() on the list l: one get_rotated_slice() per
\* entry, so no file is written
save_all_slices_to_img_dir(l) ==
  IF Len(l) = 0 THEN "ok" ELSE get_rotated_slice

\* save_curr_slice_to_img_dir(): get_index() is its first call
save_curr_slice_to_img_dir == get_index

\* render_curr_image_from_img_dir(): get_index() is its first call, before
\* the pixmap and the label are set
render_curr_image_from_img_dir == get_index

\* render_all_sliders(): get_curr_mri_image() is its first call, before any
\* slider is set
render_all_sliders == get_curr_mri_image

\* the slots of the sliders and Reset: get_curr_mri_image() is their first
\* call, before the slider is read or a setter called
rotate_x == get_curr_mri_image
rotate_y == get_curr_mri_image
rotate_z == get_curr_mri_image
slice_update == get_curr_mri_image

\* the slice that resample() returns for the object o, were it saved
slice_of_settings(o) ==
  rotated_slice(o, center_of(o), heap[o].rotation, heap[o].slice_z, smooth)

\* the file of the current index holds the slice of the current image as it
\* is now
file_is_current ==
  /\ in_range(index, Len(images))
  /\ index >= 0
  /\ gui.img_dir[index + 1] = slice_of_settings(images[index + 1])

\* the application runs: no exception has left a slot
running == gui_err = "ok"

NoFiles == [i \in 1..MaxLen |-> NoSlice]

InitGui ==
  /\ gui = [enabled |-> FALSE,
            x_slider |-> 0, y_slider |-> 0, z_slider |-> 0, slice_slider |-> 0,
            img_dir |-> NoFiles, pixmap |-> NoSlice,
            window |-> MAIN_WINDOW_INDEX, circumference |-> 0 - 1,
            slice_contours |-> 0]
  /\ gui_op = "init"
  /\ gui_err = "ok"

\* browse_files(): the files chosen in the dialog are read into new MRIImage
\* objects, which become IMAGE_LIST; enable_elements(); then the save of all
\* slices, the render and the sliders
browse_files(files) ==
  /\ running
  /\ MRIImageList_call(files, "list")
  /\ heap' = [o \in Objects |->
                IF \E i \in 1..Len(files) : files[i] = o THEN MRIImage_object
                ELSE heap[o]]
  /\ last_set' = [o \in Objects |->
                IF \E i \in 1..Len(files) : files[i] = o
                  THEN [theta_x |-> 0, theta_y |-> 0, theta_z |-> 0,
                        slice_z |-> 0]
                  ELSE last_set[o]]
  /\ heap_op' = <<"init", 0>>
  /\ gui' = [gui EXCEPT !.enabled = TRUE]
  /\ gui_op' = "browse_files"
  /\ gui_err' = then(save_all_slices_to_img_dir(files),
                     then(render_curr_image_from_img_dir, render_all_sliders))
  /\ UNCHANGED <<img_vars, proc_vars, seen, grid_vars>>

\* next_img(): IMAGE_LIST.next(), then the render and the sliders
next_img ==
  /\ running
  /\ next_call
  /\ gui_op' = "next_img"
  /\ gui_err' = then(list_err',
                     then(render_curr_image_from_img_dir, render_all_sliders))
  /\ UNCHANGED <<gui, heap_vars, img_vars, proc_vars, seen, grid_vars>>

\* previous_img(): IMAGE_LIST.previous(), then the render and the sliders
previous_img ==
  /\ running
  /\ previous_call
  /\ gui_op' = "previous_img"
  /\ gui_err' = then(list_err',
                     then(render_curr_image_from_img_dir, render_all_sliders))
  /\ UNCHANGED <<gui, heap_vars, img_vars, proc_vars, seen, grid_vars>>

\* the user drags a slider to v: the slider has the value, valueChanged runs
\* the slot
move_x_slider(v) ==
  /\ running
  /\ v # gui.x_slider
  /\ gui' = [gui EXCEPT !.x_slider = v]
  /\ gui_op' = "rotate_x"
  /\ gui_err' = rotate_x
  /\ UNCHANGED not_gui_vars

move_y_slider(v) ==
  /\ running
  /\ v # gui.y_slider
  /\ gui' = [gui EXCEPT !.y_slider = v]
  /\ gui_op' = "rotate_y"
  /\ gui_err' = rotate_y
  /\ UNCHANGED not_gui_vars

move_z_slider(v) ==
  /\ running
  /\ v # gui.z_slider
  /\ gui' = [gui EXCEPT !.z_slider = v]
  /\ gui_op' = "rotate_z"
  /\ gui_err' = rotate_z
  /\ UNCHANGED not_gui_vars

move_slice_slider(v) ==
  /\ running
  /\ v # gui.slice_slider
  /\ gui' = [gui EXCEPT !.slice_slider = v]
  /\ gui_op' = "slice_update"
  /\ gui_err' = slice_update
  /\ UNCHANGED not_gui_vars

\* reset_settings(): get_curr_mri_image() is its first call, before the
\* setters
reset_settings ==
  /\ running
  /\ gui_op' = "reset_settings"
  /\ gui_err' = get_curr_mri_image
  /\ UNCHANGED gui
  /\ UNCHANGED not_gui_vars

\* goto_circumference(): get_curr_mri_image() is its first call, before the
\* window is switched and the contour traced. n is the number of contours
\* that tracing the current slice finds, kept as history
goto_circumference(n) ==
  /\ running
  /\ gui' = [gui EXCEPT !.slice_contours = n]
  /\ gui_op' = "goto_circumference"
  /\ gui_err' = get_curr_mri_image
  /\ UNCHANGED not_gui_vars

\* CircumferenceWindow.goto_main()
goto_main ==
  /\ running
  /\ gui' = [gui EXCEPT !.window = MAIN_WINDOW_INDEX]
  /\ gui_op' = "goto_main"
  /\ gui_err' = "ok"
  /\ UNCHANGED not_gui_vars

\* the handlers, called on an IMAGE_LIST that was built and set through
\* MRIImageList and MRIImage
NextGui ==
  \/ \E l \in GuiLists : running /\ MRIImageList_init(l, "list")
  \/ running /\ next
  \/ \E i \in 0..(Len(images) - 1) :
        running /\ entry_set_theta_x(i, ROTATION_MAX)
  \/ \E i \in 0..(Len(images) - 1) : running /\ entry_set_slice_z(i, 1)
  \/ \E files \in Selections : browse_files(files)
  \/ next_img
  \/ previous_img
  \/ \E v \in SliderMoves : move_x_slider(v)
  \/ \E v \in SliderMoves : move_y_slider(v)
  \/ \E v \in SliderMoves : move_z_slider(v)
  \/ \E v \in SliceMoves : move_slice_slider(v)
  \/ reset_settings
  \/ \E n \in SliceCounts : goto_circumference(n)
  \/ goto_main

\* ------------------------------------------------------------ pixel grids
\* A 2D slice is kept in the native form (size (width, height), pixel by
\* (x, y)); its array form has a shape (rows, columns) and entries by
\* (i, j). All positions count from 0.

NoGrid == [shape |-> <<0, 0>>, data |-> <<>>]

\* img[:, :, z] of the volume read from file p: the first two sizes of the
\* volume, the pixel at (x, y) shaded k[1] * x + k[2] * y
slice_of(p, k) ==
  [shape |-> <<GetSize(p)[1], GetSize(p)[2]>>,
   data |-> [xy \in (0..(GetSize(p)[1] - 1)) \X (0..(GetSize(p)[2] - 1)) |->
               k[1] * xy[1] + k[2] * xy[2]]]

\* sitk.GetArrayFromImage(slice): the axes in the opposite order
GetArrayFromImage(sl) ==
  [shape |-> <<sl.shape[2], sl.shape[1]>>,
   data |-> [ij \in (0..(sl.shape[2] - 1)) \X (0..(sl.shape[1] - 1)) |->
               sl.data[<<ij[2], ij[1]>>]]]

\* np.transpose(a)
transpose(a) ==
  [shape |-> <<a.shape[2], a.shape[1]>>,
   data |-> [ij \in (0..(a.shape[2] - 1)) \X (0..(a.shape[1] - 1)) |->
               a.data[<<ij[2], ij[1]>>]]]

\* the binarization of one intensity
binary(v) == IF v > 0 THEN 1 ELSE 0

\* the binary mask of an array, entry by entry
binarized(a) ==
  [shape |-> a.shape, data |-> [ij \in DOMAIN a.data |-> binary(a.data[ij])]]

\* the contour mask left in the orientation of the array
contour_mask_not_retransposed(sl) == binarized(GetArrayFromImage(sl))

\* the contour mask of a slice: made from the array form, transposed back
contour_mask(sl) == transpose(binarized(GetArrayFromImage(sl)))

InitGrid ==
  /\ slice2d = NoGrid
  /\ np_array = NoGrid
  /\ mask = NoGrid
  /\ grid_op = "init"

\* rotate_and_slice(img, theta_x, theta_y, theta_z, slice_z): a slice of
\* file p, shaded k
rotate_and_slice(p, k) ==
  /\ slice2d' = slice_of(p, k)
  /\ np_array' = NoGrid
  /\ mask' = NoGrid
  /\ grid_op' = "rotate_and_slice"
  /\ UNCHANGED not_grid_vars

\* np_slice = sitk.GetArrayFromImage(slice)
to_array ==
  /\ grid_op # "init"
  /\ np_array' = GetArrayFromImage(slice2d)
  /\ grid_op' = "GetArrayFromImage"
  /\ UNCHANGED <<slice2d, mask>>
  /\ UNCHANGED not_grid_vars

\* contour(slice, True)
contour_of_slice ==
  /\ grid_op # "init"
  /\ mask' = contour_mask(slice2d)
  /\ grid_op' = "contour"
  /\ UNCHANGED <<slice2d, np_array>>
  /\ UNCHANGED not_grid_vars

NextGrid ==
  \/ \E p \in Paths, k \in Shadings : rotate_and_slice(p, k)
  \/ to_array
  \/ contour_of_slice

\* ---------------------------------------------------------- specifications
NoSeen == [taken |-> FALSE, key |-> <<0, 0, 0, 0, 0, FALSE>>, slice |-> NoSlice]

Init ==
  /\ InitList /\ InitImage /\ NoProc /\ seen = NoSeen
  /\ InitGui /\ InitGrid /\ InitHeap

\* the same, for one file and one value of the smoothing setting
InitOneFile == Init /\ path = 1 /\ ~smooth

SpecList == InitOneFile /\ [][NextList]_vars

SpecImage == Init /\ [][NextImage]_vars

SpecProc == InitOneFile /\ [][NextProc]_vars

SpecPipeline == Init /\ [][NextPipeline]_vars

SpecEntries == InitOneFile /\ [][NextEntries]_vars

SpecGrid == InitOneFile /\ [][NextGrid]_vars

SpecGui == InitOneFile /\ [][NextGui]_vars

\* ------------------------------------------------- properties of the list
NavOps == {"next", "previous"}
RemoveOps == {"delitem", "pop"}
ListExceptions == {"RemoveFromEmptyList", "RemoveFromListOfLengthOne"}

\* s without its k-th entry (1-based), written without the model's helpers
without(s, k) == [j \in 1..(Len(s) - 1) |-> IF j < k THEN s[j] ELSE s[j + 1]]

\* C1: whenever the list is non-empty the cursor is a position of the list,
\* 0 <= index < len(list).
C1_CursorInRange ==
  Len(images) > 0 => (0 <= index /\ index < Len(images))

\* C3: a removal (del or pop) on a list of length 1 raises
\* RemoveFromListOfLengthOne, on an empty list RemoveFromEmptyList, and in
\* both cases the entries and the cursor stay as they were.
C3_RemoveGuardsKeepState ==
  [][(list_op' \in RemoveOps /\ Len(images) <= 1) =>
       /\ Len(images) = 0 => list_err' = "RemoveFromEmptyList"
       /\ Len(images) = 1 => list_err' = "RemoveFromListOfLengthOne"
       /\ images' = images
       /\ index' = index]_vars

C3_Witness ==
  /\ list_op \in RemoveOps
  /\ list_err = "RemoveFromListOfLengthOne"
  /\ Len(images) = 1

\* C4: on a list of length n >= 1, next() stores (index + 1) mod n and
\* previous() stores (index - 1) mod n; the last index wraps to 0, index 0
\* wraps to n - 1, and the entries are not changed.
C4_NavigationIsModular ==
  [][(list_op' \in NavOps /\ Len(images) >= 1) =>
       /\ list_op' = "next" => index' = (index + 1) % Len(images)
       /\ list_op' = "previous" => index' = (index - 1) % Len(images)
       /\ (list_op' = "next" /\ index = Len(images) - 1) => index' = 0
       /\ (list_op' = "previous" /\ index = 0) => index' = Len(images) - 1
       /\ images' = images]_vars

C4_Witness ==
  /\ list_op = "next"
  /\ list_err = "ok"
  /\ Len(images) >= 2
  /\ run_count = 1
  /\ run_start = Len(images) - 1
  /\ index = 0

\* C5: n calls of next() in a row (or n calls of previous()) on a list of
\* length n >= 1 bring the cursor back to the value it had before the run.
C5_FullRunReturnsCursor ==
  (run_op \in NavOps /\ run_count = Len(images)) => index = run_start

\* C6: on a list of length 1, next() and previous() leave the cursor as it
\* was, and that value is 0.
C6_SingleEntryNavigationIsNoOp ==
  [][(list_op' \in NavOps /\ Len(images) = 1) =>
       (index' = index /\ index' = 0)]_vars

\* C7 as claimed: next() or previous() on an empty list fails with an
\* exception of the list's own taxonomy, and the cursor is not changed.
C7_EmptyNavigationRaisesListException ==
  [][(list_op' \in NavOps /\ Len(images) = 0) =>
       (list_err' \in ListExceptions /\ index' = index)]_vars

\* C7 amended: next() or previous() on an empty list fails with
\* ZeroDivisionError, and the cursor is not changed.
C7_EmptyNavigationRaisesZeroDivision ==
  [][(list_op' \in NavOps /\ Len(images) = 0) =>
       (list_err' = "ZeroDivisionError" /\ index' = index)]_vars

C7_Witness ==
  /\ list_op \in NavOps
  /\ list_err = "ZeroDivisionError"
  /\ Len(images) = 0

\* C8: on a list object whose _images is a list (the type the constructor
\* and the images setter declare), insert, append and extend succeed, add
\* exactly the entries they are given, keep every other entry in place and
\* order, and leave the cursor alone, for every state and every position.
C8_AddingKeepsCursor ==
  [][(list_op' \in {"insert", "append", "extend"} /\ backing # "tuple") =>
       /\ index' = index
       /\ list_err' = "ok"
       /\ Len(images') = Len(images) + Len(list_arg')
       /\ list_op' = "insert" =>
            \E k \in 1..Len(images') :
               images'[k] = list_arg'[1] /\ without(images', k) = images
       /\ list_op' \in {"append", "extend"} =>
            /\ SubSeq(images', 1, Len(images)) = images
            /\ SubSeq(images', Len(images) + 1, Len(images')) = list_arg'
     ]_vars

C8_Witness ==
  /\ list_op = "insert"
  /\ list_err = "ok"
  /\ backing # "tuple"
  /\ Len(images) >= 2
  /\ index >= 1
  /\ images[1] = list_arg[1]
  /\ images[2] # list_arg[1]

\* C26: a removal that succeeds on a list of length n >= 2 removes the entry
\* at the given position and no other: pop(i) returns the entry that was at
\* position i, the list has length n - 1 with the other entries in their
\* order, and the cursor has the integer value it had.
C26_RemovalTakesGivenEntryKeepsCursor ==
  [][(list_op' \in RemoveOps /\ list_err' = "ok") =>
     \A i \in IdxArgs :
       (pop(i) \/ delitem(i)) =>
          LET n == Len(images)
              k == IF i < 0 THEN i + n ELSE i
          IN /\ n >= 2
             /\ 0 <= k /\ k < n
             /\ Len(images') = n - 1
             /\ images' = without(images, k + 1)
             /\ list_op' = "pop" => list_ret' = images[k + 1]
             /\ index' = index]_vars

C26_Witness ==
  /\ list_op = "pop"
  /\ list_err = "ok"
  /\ Len(images) = 2
  /\ index = 2
  /\ list_ret # images[1]
  /\ list_ret # images[2]

\* ------------------------------------------------ properties of the image
AngleSetters == {"set_theta_x", "set_theta_y", "set_theta_z"}

\* C2: the rotation held by the Euler3DTransform is always the radian
\* conversion of the current theta_x, theta_y, theta_z.
C2_RotationMatchesAngles ==
  rotation = <<degrees_to_radians(theta_x), degrees_to_radians(theta_y),
               degrees_to_radians(theta_z)>>

\* C9: a slice index outside 0 <= i < nz is rejected by the setter, so
\* slice_z is always a plane index of the volume.
C9_SliceIndexInVolume ==
  0 <= slice_z /\ slice_z < GetSize(base_img)[3]

\* C10: after a call of an angle setter every angle lies in the rotation
\* domain ROTATION_MIN..ROTATION_MAX, the same domain in every module.
C10_AnglesInRotationDomain ==
  img_op \in AngleSetters =>
    \A t \in {theta_x, theta_y, theta_z} :
       /\ ROTATION_MIN <= t /\ t <= ROTATION_MAX
       /\ constants_ROTATION_MIN <= t /\ t <= constants_ROTATION_MAX

\* C12 as claimed: the center of the transform is set at construction and
\* no later operation on the object changes it.
C12_CenterNeverChanges ==
  [][img_op' # "construct" => center' = center]_vars

\* C12 amended: the angle setters, the slice setter, resample and
\* resample_hardcoded keep the center; the path setter moves it to the
\* center of the file it reads.
C12_CenterChangesOnlyWithPath ==
  [][/\ img_op' \notin {"construct", "set_path"} => center' = center
     /\ img_op' = "set_path" => center' = center_of(path')]_vars

C12_Witness ==
  /\ img_op = "set_path"
  /\ path = NumFiles
  /\ center = center_of(NumFiles)
  /\ center # center_of(1)

\* C13: resample() changes nothing of the MRIImage, with smoothing or
\* without: base image, angles, slice, rotation and center stay.
C13_ResampleChangesNothing ==
  [][img_op' = "resample" =>
       UNCHANGED <<path, base_img, theta_x, theta_y, theta_z, slice_z,
                   rotation, center>>]_vars

C13_Witness ==
  /\ img_op = "resample"
  /\ img_err = "ok"
  /\ smooth
  /\ img_ret.smooth
  /\ theta_x # 0
  /\ rotation = <<degrees_to_radians(theta_x), degrees_to_radians(theta_y),
                  degrees_to_radians(theta_z)>>

\* C14: resample_hardcoded leaves the rotation of the transform as it was
\* before the call, and leaves the angle and slice fields alone.
C14_HardcodedRestoresRotation ==
  [][img_op' = "resample_hardcoded" =>
       /\ rotation' = rotation
       /\ UNCHANGED <<theta_x, theta_y, theta_z, slice_z>>]_vars

\* C15: resample() with a slice_z outside 0..nz-1 raises IndexError,
\* returns no slice and changes nothing; a slice is returned only for a
\* slice_z in 0..nz-1.
C15_ResampleRejectsBadSlice ==
  [][(img_op' = "resample"
        /\ ~(0 <= slice_z /\ slice_z < GetSize(base_img)[3])) =>
       /\ img_err' = "IndexError"
       /\ img_ret' = NoSlice
       /\ UNCHANGED <<path, base_img, theta_x, theta_y, theta_z, slice_z,
                      rotation, center>>]_vars

\* ------------------------------------- properties of the image processing
\* the points of c in the opposite order
reversed(c) == [i \in 1..Len(c) |-> c[Len(c) + 1 - i]]

\* sum of the distances of the pairs (c[i], c[i+1]) for i in 1..k, the
\* successor of the last point being the first
RECURSIVE ring_sum(_, _)
ring_sum(c, k) ==
  IF k = 0 THEN 0
  ELSE distance(c[k], c[(k % Len(c)) + 1]) + ring_sum(c, k - 1)

\* C16: contour extraction declares the slice invalid exactly when 10 or
\* more contours are found; then no contour is returned, and with 1 to 9
\* contours the one returned is the contour that has no parent.
C16_InvalidFromTenContours ==
  proc_op = "extract" =>
    /\ (proc_err = "InvalidSlice") <=> (Len(found) >= 10)
    /\ Len(found) >= 10 => (selected = 0 - 1 /\ contour = <<>>)
    /\ (Len(found) >= 1 /\ Len(found) <= 9) =>
         (selected >= 0 /\ found[selected + 1] = 0 - 1)

C16_Witness ==
  /\ proc_op = "extract"
  /\ Len(found) = 10
  /\ proc_err = "InvalidSlice"
  /\ selected = 0 - 1

\* C18: measuring the length of a contour leaves the contour, point for
\* point, as it was before the call.
C18_MeasureKeepsContour ==
  [][proc_op' = "measure" => contour' = contour]_vars

C18_Witness ==
  /\ proc_op = "measure"
  /\ proc_err = "ok"
  /\ Len(contour) = MaxPoints
  /\ contour[1] # contour[MaxPoints]
  /\ proc_ret > 0

\* C20: the perimeter of a contour of 2 or more points is the length of the
\* closed curve, the pair (last, first) included, and it is the same for
\* the points in reversed order.
C20_PerimeterOfReversedContour ==
  (proc_op = "measure" /\ Len(contour) >= 2) =>
    /\ proc_err = "ok"
    /\ proc_ret = ring_sum(contour, Len(contour))
    /\ proc_ret = closed_length(reversed(contour))

C20_Witness ==
  /\ proc_op = "measure"
  /\ contour = <<<<0, 0>>, <<3, 0>>, <<1, 4>>>>
  /\ proc_ret = 3000 + 4472 + 4123
\* C21: measuring a contour of 0 or 1 points fails with the empty-contour
\* error and returns no number; a contour of 2 or more points yields a
\* number.
C21_ShortContourIsEmptyContour ==
  proc_op = "measure" =>
    /\ Len(contour) < 2 => (proc_err = "EmptyContour" /\ proc_ret = 0 - 1)
    /\ Len(contour) >= 2 => (proc_err = "ok" /\ proc_ret >= 0)

C21_Witness ==
  /\ proc_op = "measure"
  /\ Len(contour) = 1
  /\ proc_err = "EmptyContour"
  /\ proc_ret = 0 - 1

\* C22: the array form of a slice is the transpose of its native grid
\* (array[i][j] = pixel(j, i), shape (height, width)), and the contour mask
\* has the shape (size[0], size[1]) with its entry [x][y] made from the
\* native pixel (x, y).
C22_ArrayIsTransposeMaskIsNative ==
  /\ grid_op = "GetArrayFromImage" =>
       /\ np_array.shape = <<slice2d.shape[2], slice2d.shape[1]>>
       /\ \A i \in 0..(slice2d.shape[2] - 1), j \in 0..(slice2d.shape[1] - 1) :
             np_array.data[<<i, j>>] = slice2d.data[<<j, i>>]
  /\ grid_op = "contour" =>
       /\ mask.shape = slice2d.shape
       /\ \A x \in 0..(slice2d.shape[1] - 1), y \in 0..(slice2d.shape[2] - 1) :
             mask.data[<<x, y>>] = (IF slice2d.data[<<x, y>>] > 0 THEN 1 ELSE 0)

C22_Witness ==
  /\ grid_op = "contour"
  /\ slice2d.shape[1] # slice2d.shape[2]
  /\ np_array.shape = <<slice2d.shape[2], slice2d.shape[1]>>
  /\ mask.shape = slice2d.shape
  /\ mask.data[<<1, 0>>] # mask.data[<<0, 1>>]

\* C19: the pipeline is deterministic: a resample() of the same volume with
\* the same angles, slice index and smoothing as a remembered one returns
\* the same slice (and so the same contour and length), whatever was called
\* in between.
C19_SameInputsSameSlice ==
  (/\ img_op = "resample"
   /\ img_err = "ok"
   /\ seen.taken
   /\ seen.key = pipeline_inputs) => img_ret = seen.slice

\* ------------------------------------------- properties of the main window
\* the current image of a list whose cursor is one of its positions
has_current == 0 <= index /\ index < Len(images)

\* C11: Reset leaves the current image with theta_x = theta_y = theta_z = 0,
\* slice_z = 0 and the rotation (0, 0, 0) whatever they were before, and
\* changes no other image of the list.
C11_ResetZeroesCurrentImageOnly ==
  [][(gui_op' = "reset_settings" /\ has_current) =>
       /\ index' = index
       /\ images' = images
       /\ LET im == heap'[images[index + 1]]
          IN /\ im.theta_x = 0 /\ im.theta_y = 0 /\ im.theta_z = 0
             /\ im.slice_z = 0
             /\ im.rotation = <<0, 0, 0>>
       /\ \A o \in Objects \ {images[index + 1]} : heap'[o] = heap[o]]_vars

\* C17: when Apply is pressed on a slice whose contour extraction ends with
\* the invalid-slice outcome, the handler ends normally with no perimeter
\* computed or displayed, and the application goes on.
C17_InvalidSliceIsHandled ==
  (gui_op = "goto_circumference" /\ has_current
     /\ is_invalid_slice(gui.slice_contours)) =>
    /\ gui_err = "ok"
    /\ gui.circumference = 0 - 1

\* the stored angles and slice index of an image
settings_of(im) == <<im.theta_x, im.theta_y, im.theta_z, im.slice_z>>

\* the four sliders show the stored values of the current image
sliders_show_current ==
  <<gui.x_slider, gui.y_slider, gui.z_slider, gui.slice_slider>>
    = settings_of(heap[images[index + 1]])

\* C24: when the handler of Next or Previous has finished (pressed while the
\* sliders showed the current image), the four sliders show the values of
\* the now current image and every image of the list has the angles and the
\* slice index it had before.
C24_NavigationShowsAndKeepsSettings ==
  [][(gui_op' \in {"next_img", "previous_img"} /\ has_current
        /\ sliders_show_current) =>
       /\ <<gui'.x_slider, gui'.y_slider, gui'.z_slider, gui'.slice_slider>>
            = settings_of(heap'[images'[index' + 1]])
       /\ images' = images
       /\ \A o \in Objects : settings_of(heap'[o]) = settings_of(heap[o])]_vars

\* C25: after Open, a slider change, Reset, Next and Previous on a list with
\* a current image, the file of the current index has been saved from the
\* current image's present angles and slice index.
C25_RenderedFileIsCurrent ==
  (gui_op \in {"browse_files", "rotate_x", "rotate_y", "rotate_z",
               "slice_update", "reset_settings", "next_img", "previous_img"}
     /\ has_current) => file_is_current

\* ------------------------------------------ properties of the list entries
\* the object o holds the values last passed to its setters
holds_last_set(o) ==
  /\ heap[o].theta_x = last_set[o].theta_x
  /\ heap[o].theta_y = last_set[o].theta_y
  /\ heap[o].theta_z = last_set[o].theta_z
  /\ heap[o].slice_z = last_set[o].slice_z
  /\ heap[o].rotation = <<degrees_to_radians(last_set[o].theta_x),
                          degrees_to_radians(last_set[o].theta_y),
                          degrees_to_radians(last_set[o].theta_z)>>

\* C23: a setter called on one image changes that image only and leaves the
\* list and its cursor alone, next() and previous() change no image, and so
\* every image holds the values last set on it.
C23_SettingsKeptPerImage ==
  [][/\ \A o \in Objects : heap'[o] # heap[o] => o = heap_op'[2]
     /\ heap' # heap => (images' = images /\ index' = index)
     /\ list_op' \in NavOps => images' = images
     /\ index' # index => heap' = heap
     /\ \A o \in Objects : holds_last_set(o)']_vars

C23_Witness ==
  /\ list_op = "next"
  /\ Len(images) = 3
  /\ index = 1
  /\ heap[1].theta_x = ROTATION_MAX
  /\ heap[1].slice_z = 0
  /\ heap[2].theta_x = 0
  /\ heap[2].slice_z = 1
  /\ heap[2].rotation = <<0, 0, 0>>

====
